---- MODULE Spec2Model ----
(***************************************************************************)
(* Model of the syscall monitoring pipeline of src/ebpf_monitor.rs (the    *)
(* in-kernel probes syscall_entry / syscall_exit, the perf buffer "events" *)
(* and the consumer task spawned by EBPFMonitor::start_monitoring), of     *)
(* MLAnomalyDetector::extract_features and detect_anomaly of               *)
(* src/ml_detector.rs, of MemoryRandomizer of src/memory_randomizer.rs, of *)
(* SnapshotManager of src/recovery_snapshot.rs, and of the Detection       *)
(* Coordinator's per-process state machine.                                *)
(***************************************************************************)
EXTENDS Integers, Sequences, FiniteSets, TLC

(***************************************************************************)
(* Bounds of the model.                                                    *)
(***************************************************************************)
MaxSyscalls == 2      \* syscall_exit invocations in one run of the pipeline
MaxTicks == 2         \* advances of the kernel clock in one run
MaxCount == 1002      \* records fed to the aggregator in one feed run
FreePrefix == 3       \* leading records of a feed run that are arbitrary
MaxSeqLen == 4        \* longest sequence handed to extract_features
MaxFlags == 4         \* flags one monitored process receives in one run
MaxCalls == 3         \* calls made to one MemoryRandomizer
MaxTakes == 3         \* take_snapshot calls made to one SnapshotManager
MaxRestores == 2      \* restore_snapshot calls made to one SnapshotManager
MaxCryptoCalls == 3   \* calls made to one CryptoIdentifier

Tasks == {1, 2}       \* consumer tasks: start_monitoring called twice
Shards == {0, 1}      \* shards of the DashMap
SyscallIds == {1, 2}
PidTgids == {1}
RetVals == {-1, 0}

(***************************************************************************)
(* u64 arithmetic.  A u64 is four 16-bit limbs, most significant first,    *)
(* so that wrap-around at 2^64 is computed, not assumed away.              *)
(***************************************************************************)
Base == 2^16

ToU64(n) == <<0, 0, n \div Base, n % Base>>

U64Zero == <<0, 0, 0, 0>>

\* x + y as the pair of the wrapped 64-bit sum and the carry out of bit 63.
U64Add(x, y) ==
  LET s4 == x[4] + y[4]
      s3 == x[3] + y[3] + (s4 \div Base)
      s2 == x[2] + y[2] + (s3 \div Base)
      s1 == x[1] + y[1] + (s2 \div Base)
  IN [val |-> <<s1 % Base, s2 % Base, s3 % Base, s4 % Base>>,
      carry |-> s1 \div Base]

\* x - y modulo 2^64 (C unsigned subtraction).
U64Sub(x, y) ==
  LET d4 == x[4] - y[4]
      b4 == IF d4 < 0 THEN 1 ELSE 0
      d3 == x[3] - y[3] - b4
      b3 == IF d3 < 0 THEN 1 ELSE 0
      d2 == x[2] - y[2] - b3
      b2 == IF d2 < 0 THEN 1 ELSE 0
      d1 == x[1] - y[1] - b2
  IN <<d1 % Base, d2 % Base, d3 % Base, d4 % Base>>

\* x / 2 (unsigned integer division).
U64Half(x) ==
  <<x[1] \div 2,
    (x[2] \div 2) + (x[1] % 2) * (Base \div 2),
    (x[3] \div 2) + (x[2] % 2) * (Base \div 2),
    (x[4] \div 2) + (x[3] % 2) * (Base \div 2)>>

U64Gt(x, y) ==
  \/ x[1] > y[1]
  \/ x[1] = y[1] /\ x[2] > y[2]
  \/ x[1] = y[1] /\ x[2] = y[2] /\ x[3] > y[3]
  \/ x[1] = y[1] /\ x[2] = y[2] /\ x[3] = y[3] /\ x[4] > y[4]

U64Le(x, y) == ~U64Gt(x, y)

\* The value read as an i64 is negative (bit 63 set).
U64IsNegative(x) == x[1] >= Base \div 2

(***************************************************************************)
(* f32 arithmetic on the values the score takes.  An f32 in [0, 2) is the  *)
(* integer number of 2^-25 it holds; in [0.5, 1) the f32 spacing is 2 of   *)
(* these units and in [1, 2) it is 4, rounding to nearest, ties to even.   *)
(***************************************************************************)
F32Nearest(v, ulp) ==
  LET q == v \div ulp
      r == v % ulp
  IN IF 2 * r < ulp THEN q * ulp
     ELSE IF 2 * r > ulp THEN (q + 1) * ulp
     ELSE IF q % 2 = 0 THEN q * ulp ELSE (q + 1) * ulp

F32Round(v) ==
  IF v < 2^24 THEN v
  ELSE IF v < 2^25 THEN F32Nearest(v, 2)
  ELSE F32Nearest(v, 4)

F32Add(a, b) == F32Round(a + b)

F32Min(a, b) == IF a < b THEN a ELSE b

F32_0_3 == 10066330     \* 0.3f32 = 0.300000011920928955078125
F32_0_4 == 13421773     \* 0.4f32 = 0.4000000059604644775390625
F32_0_8 == 26843546     \* 0.8f32 = 0.800000011920928955078125
F32_1_0 == 33554432     \* 1.0f32
ErrorRateInit == 0      \* error_rate: 0.0
CountThreshold == 1000
DurationThresholdNs == 100000000
SubmitThresholdNs == 1000000000

(***************************************************************************)
(* State.                                                                  *)
(***************************************************************************)
VARIABLES
  syscall_start,   \* BPF_HASH(syscall_start): pid_tgid -> entry timestamp
  syscall_count,   \* BPF_HASH(syscall_count): syscall id -> calls seen
  syscall_errors,  \* BPF_HASH(syscall_errors): syscall id -> negative returns
  ktime,           \* bpf_ktime_get_ns()
  ticks,           \* clock advances so far
  exits,           \* syscall_exit invocations so far
  events,          \* BPF_PERF_OUTPUT(events): records not yet read
  syscall_stats,   \* EBPFMonitor.syscall_stats: syscall id -> SyscallStat
  shard_lock,      \* DashMap shard -> task holding its write lock, or 0
  pc,              \* position of each consumer task in its loop
  batch,           \* records returned by the task's perf_map.read()
  cur,             \* record the task is processing
  local,           \* fields of *stat the task has read
  alerts,          \* tracing::warn! events emitted: <<syscall, score>>
  shutdown,        \* a shutdown of the monitor has been requested
  processed,       \* history: per syscall id, records taken off the buffer
  last,            \* history: the latest completed record step
  fed,             \* records fed so far in a feed run
  ef_in,           \* arguments of the pending extract_features call
  ef_out,          \* what the last extract_features call returned
  da_in,           \* arguments of the pending detect_anomaly call
  da_out,          \* what the last detect_anomaly call did
  coord,           \* Detection Coordinator: state of the monitored process
  layouts,         \* MemoryRandomizer.layouts: pid -> MemoryLayout
  mr,              \* the thread inside MemoryRandomizer, and the RwLock
  snapshot_dir,    \* files of SnapshotManager.snapshot_dir: id -> file
  snap,            \* clock and latest result of the SnapshotManager
  tokens,          \* ProcessTokens issued by the CryptoIdentifier so far
  ci               \* clock and latest call of the CryptoIdentifier

vars == <<syscall_start, syscall_count, syscall_errors, ktime, ticks, exits,
          events, syscall_stats, shard_lock, pc, batch, cur, local, alerts,
          shutdown, processed, last, fed, ef_in, ef_out, da_in, da_out,
          coord, layouts, mr, snapshot_dir, snap, tokens, ci>>

kernelVars == <<syscall_start, syscall_count, syscall_errors, ktime, ticks,
                exits>>
taskVars == <<shard_lock, pc, batch, cur, local>>
extractVars == <<ef_in, ef_out>>
detectVars == <<da_in, da_out>>
memoryVars == <<layouts, mr>>
snapshotVars == <<snapshot_dir, snap>>
cryptoVars == <<tokens, ci>>
peripheralVars == <<detectVars, coord, memoryVars, snapshotVars, cryptoVars>>
monitorVars == <<kernelVars, events, syscall_stats, taskVars, alerts,
                 shutdown, processed, last, fed>>

NoRecord == [pid |-> 0, syscall |-> 0, duration |-> U64Zero,
             retval |-> <<0, 0>>]
NoStat == [count |-> 0, avg_duration_ns |-> U64Zero, error_rate |-> 0,
           suspicious_score |-> 0]
NoLast == [rec |-> NoRecord, old |-> NoStat, new |-> NoStat,
           panicked |-> FALSE, alerted |-> FALSE]
NoProcessed == [n |-> 0, neg |-> 0, nonzero |-> 0]

(***************************************************************************)
(* The in-kernel program (the C text of EBPFMonitor::new).                 *)
(***************************************************************************)
TickSteps == {ToU64(SubmitThresholdNs), ToU64(SubmitThresholdNs + 1)}

\* data.retval = retval: the low 32 bits of the long, as two 16-bit limbs.
U32OfLong(rv) == IF rv >= 0 THEN <<0, rv>> ELSE <<Base - 1, Base + rv>>

\* The 32-bit return code read back as a signed value is negative.
RetvalNegative(r) == r[1] >= Base \div 2

\* table.lookup_or_init(&key, &zero); (*value)++
HashIncrement(table, key) ==
  IF key \in DOMAIN table
  THEN [table EXCEPT ![key] = @ + 1]
  ELSE (key :> 1) @@ table

\* The clock bpf_ktime_get_ns() reads moves forward.
Tick ==
  /\ ticks < MaxTicks
  /\ \E d \in TickSteps : ktime' = U64Add(ktime, d).val
  /\ ticks' = ticks + 1
  /\ UNCHANGED <<syscall_start, syscall_count, syscall_errors, exits, events,
                 syscall_stats, taskVars, alerts, shutdown, processed, last,
                 fed, extractVars, peripheralVars>>

syscall_entry(pid_tgid) ==
  /\ syscall_start' = (pid_tgid :> ktime) @@
                      [k \in DOMAIN syscall_start \ {pid_tgid} |->
                         syscall_start[k]]
  /\ UNCHANGED <<syscall_count, syscall_errors, ktime, ticks, exits, events,
                 syscall_stats, taskVars, alerts, shutdown, processed, last,
                 fed, extractVars, peripheralVars>>

\* ExitCounters with the call counted only on the success path.
ExitCounters_SuccessOnly(counts, errors, syscall_id, retval) ==
  [count |-> IF retval < 0 THEN counts
             ELSE HashIncrement(counts, syscall_id),
   errors |-> IF retval < 0 THEN HashIncrement(errors, syscall_id)
              ELSE errors]

\* Counters of syscall_exit as the code updates them.
ExitCounters(counts, errors, syscall_id, retval) ==
  [count |-> HashIncrement(counts, syscall_id),
   errors |-> IF retval < 0 THEN HashIncrement(errors, syscall_id)
              ELSE errors]

syscall_exit(pid_tgid, syscall_id, retval) ==
  /\ exits < MaxSyscalls
  /\ pid_tgid \in DOMAIN syscall_start          \* tsp == 0: return 0
  /\ LET duration == U64Sub(ktime, syscall_start[pid_tgid])
         c == ExitCounters(syscall_count, syscall_errors, syscall_id, retval)
     IN /\ syscall_count' = c.count
        /\ syscall_errors' = c.errors
        /\ events' = IF U64Gt(duration, ToU64(SubmitThresholdNs))
                     THEN Append(events, [pid |-> pid_tgid,
                                          syscall |-> syscall_id,
                                          duration |-> duration,
                                          retval |-> U32OfLong(retval)])
                     ELSE events
  /\ syscall_start' = [k \in DOMAIN syscall_start \ {pid_tgid} |->
                         syscall_start[k]]
  /\ exits' = exits + 1
  /\ UNCHANGED <<ktime, ticks, syscall_stats, taskVars, alerts, shutdown,
                 processed, last, fed, extractVars, peripheralVars>>

(***************************************************************************)
(* The body of the consumer loop of start_monitoring.                      *)
(***************************************************************************)
\* calculate_suspicious_score with the frequency test written count >= 1000.
calculate_suspicious_score_ge(stat) ==
  LET s1 == IF stat.error_rate > F32_0_3 THEN F32Add(0, F32_0_4) ELSE 0
      s2 == IF U64Gt(stat.avg_duration_ns, ToU64(DurationThresholdNs))
            THEN F32Add(s1, F32_0_3) ELSE s1
      s3 == IF stat.count >= CountThreshold THEN F32Add(s2, F32_0_3) ELSE s2
  IN F32Min(s3, F32_1_0)

calculate_suspicious_score(stat) ==
  LET s1 == IF stat.error_rate > F32_0_3 THEN F32Add(0, F32_0_4) ELSE 0
      s2 == IF U64Gt(stat.avg_duration_ns, ToU64(DurationThresholdNs))
            THEN F32Add(s1, F32_0_3) ELSE s1
      s3 == IF stat.count > CountThreshold THEN F32Add(s2, F32_0_3) ELSE s2
  IN F32Min(s3, F32_1_0)

\* OrInsert with the insertion of a new key dropping the other entries.
OrInsert_Clobber(stats, syscall) ==
  IF syscall \in DOMAIN stats THEN stats
  ELSE (syscall :> [count |-> 0, avg_duration_ns |-> U64Zero,
                    error_rate |-> ErrorRateInit, suspicious_score |-> 0])

\* stats.entry(syscall).or_insert(SyscallStat { 0, 0, 0.0, 0.0 })
OrInsert(stats, syscall) ==
  IF syscall \in DOMAIN stats THEN stats
  ELSE (syscall :> [count |-> 0, avg_duration_ns |-> U64Zero,
                    error_rate |-> ErrorRateInit, suspicious_score |-> 0])
       @@ stats

\* stat.count += 1
Counted(stat) == [stat EXCEPT !.count = @ + 1]

\* UpdatedStat with the score computed before the counters are updated.
UpdatedStat_Stale(stat, duration) ==
  LET s == [Counted(stat) EXCEPT !.avg_duration_ns =
              U64Half(U64Add(stat.avg_duration_ns, duration).val)]
  IN [s EXCEPT !.suspicious_score = calculate_suspicious_score(stat)]

\* The three assignments of the loop body, the sum taken modulo 2^64.
UpdatedStat(stat, duration) ==
  LET s == [Counted(stat) EXCEPT !.avg_duration_ns =
              U64Half(U64Add(stat.avg_duration_ns, duration).val)]
  IN [s EXCEPT !.suspicious_score = calculate_suspicious_score(s)]

\* What the loop body can leave in the stat.  avg_duration_ns + duration is
\* a u64 addition: when it overflows, a build with overflow checks panics
\* after stat.count += 1, and a build without them wraps.
UpdateOutcomes(stat, duration) ==
  IF U64Add(stat.avg_duration_ns, duration).carry = 0
  THEN {[stat |-> UpdatedStat(stat, duration), panicked |-> FALSE]}
  ELSE {[stat |-> UpdatedStat(stat, duration), panicked |-> FALSE],
        [stat |-> Counted(stat), panicked |-> TRUE]}

\* if stat.suspicious_score > 0.8 { tracing::warn!(...) }
AlertOf(syscall, stat) ==
  IF stat.suspicious_score > F32_0_8
  THEN {<<syscall, stat.suspicious_score>>}
  ELSE {}

\* History of the records taken off the perf buffer.
Account(proc, rec) ==
  LET old == IF rec.syscall \in DOMAIN proc THEN proc[rec.syscall]
             ELSE NoProcessed
  IN (rec.syscall :>
        [n |-> old.n + 1,
         neg |-> old.neg + (IF RetvalNegative(rec.retval) THEN 1 ELSE 0),
         nonzero |-> old.nonzero +
                     (IF rec.duration = U64Zero THEN 0 ELSE 1)])
     @@ [k \in DOMAIN proc \ {rec.syscall} |-> proc[k]]

\* The shard a key hashes to.
ShardOf(syscall) == syscall % Cardinality(Shards)

\* CanLock for a map that hands out the entry without excluding other tasks.
CanLock_NoExclusion(locks, shard) == TRUE

\* entry() takes the write lock of the key's shard; it waits while another
\* guard holds it.
CanLock(locks, shard) == locks[shard] = 0

(***************************************************************************)
(* The consumer task, one step per access to shared state.                 *)
(***************************************************************************)
\* perf_map.read()
TaskPoll(t) ==
  /\ pc[t] = "poll"
  /\ batch' = [batch EXCEPT ![t] = events]
  /\ events' = <<>>
  /\ pc' = [pc EXCEPT ![t] = "next"]
  /\ UNCHANGED <<kernelVars, syscall_stats, shard_lock, cur, local, alerts,
                 shutdown, processed, last, fed, extractVars, peripheralVars>>

\* for data in ...: decode the next record, or leave the for loop.
TaskNext(t) ==
  /\ pc[t] = "next"
  /\ IF batch[t] = <<>>
     THEN /\ pc' = [pc EXCEPT ![t] = "sleep"]
          /\ UNCHANGED <<batch, cur, processed>>
     ELSE /\ cur' = [cur EXCEPT ![t] = Head(batch[t])]
          /\ batch' = [batch EXCEPT ![t] = Tail(batch[t])]
          /\ processed' = Account(processed, Head(batch[t]))
          /\ pc' = [pc EXCEPT ![t] = "entry"]
  /\ UNCHANGED <<kernelVars, events, syscall_stats, shard_lock, local, alerts,
                 shutdown, last, fed, extractVars, peripheralVars>>

\* let mut stat = stats.entry(syscall).or_insert(...)
TaskEntry(t) ==
  /\ pc[t] = "entry"
  /\ CanLock(shard_lock, ShardOf(cur[t].syscall))
  /\ shard_lock' = [shard_lock EXCEPT ![ShardOf(cur[t].syscall)] = t]
  /\ syscall_stats' = OrInsert(syscall_stats, cur[t].syscall)
  /\ pc' = [pc EXCEPT ![t] = "load"]
  /\ UNCHANGED <<kernelVars, events, batch, cur, local, alerts, shutdown,
                 processed, last, fed, extractVars, peripheralVars>>

\* The reads of *stat made by the three assignments.
TaskLoad(t) ==
  /\ pc[t] = "load"
  /\ local' = [local EXCEPT ![t] = syscall_stats[cur[t].syscall]]
  /\ pc' = [pc EXCEPT ![t] = "store"]
  /\ UNCHANGED <<kernelVars, events, syscall_stats, shard_lock, batch, cur,
                 alerts, shutdown, processed, last, fed, extractVars, peripheralVars>>

\* The writes to *stat and the warning.
TaskStore(t) ==
  /\ pc[t] = "store"
  /\ \E o \in UpdateOutcomes(local[t], cur[t].duration) :
       LET a == IF o.panicked THEN {} ELSE AlertOf(cur[t].syscall, o.stat)
       IN /\ syscall_stats' = [syscall_stats EXCEPT ![cur[t].syscall] = o.stat]
          /\ alerts' = alerts \cup a
          /\ last' = [rec |-> cur[t], old |-> local[t], new |-> o.stat,
                      panicked |-> o.panicked, alerted |-> a # {}]
          /\ pc' = [pc EXCEPT ![t] = IF o.panicked THEN "unwind" ELSE "drop"]
  /\ UNCHANGED <<kernelVars, events, shard_lock, batch, cur, local, shutdown,
                 processed, fed, extractVars, peripheralVars>>

\* The guard goes out of scope at the end of the loop body, or is dropped
\* while the panic unwinds.
TaskDrop(t) ==
  /\ pc[t] \in {"drop", "unwind"}
  /\ shard_lock' = [shard_lock EXCEPT ![ShardOf(cur[t].syscall)] = 0]
  /\ pc' = [pc EXCEPT ![t] = IF pc[t] = "unwind" THEN "panicked" ELSE "next"]
  /\ UNCHANGED <<kernelVars, events, syscall_stats, batch, cur, local, alerts,
                 shutdown, processed, last, fed, extractVars, peripheralVars>>

\* tokio::time::sleep(100 ms), then the next iteration of loop { }.
TaskSleep(t) ==
  /\ pc[t] = "sleep"
  /\ pc' = [pc EXCEPT ![t] = "poll"]
  /\ UNCHANGED <<kernelVars, events, syscall_stats, shard_lock, batch, cur,
                 local, alerts, shutdown, processed, last, fed, extractVars, peripheralVars>>

\* The owner of the monitor asks the pipeline to stop.
Shutdown ==
  /\ ~shutdown
  /\ shutdown' = TRUE
  /\ UNCHANGED <<kernelVars, events, syscall_stats, taskVars, alerts,
                 processed, last, fed, extractVars, peripheralVars>>

NoExtractIn == [syscall_sequence |-> <<>>, timing |-> <<>>,
                process_metadata |-> [privilege_level |-> 0,
                                      children_count |-> 0,
                                      resource_usage |-> 0,
                                      signature |-> <<>>],
                pending |-> FALSE]
NoExtractOut == [returned |-> FALSE, error |-> "none", features |-> <<>>]

NoDetectIn == [features |-> <<>>, width |-> 0, has_ops |-> FALSE,
               pending |-> FALSE]
NoDetectOut == [returned |-> FALSE, ran |-> FALSE, panicked |-> FALSE,
                error |-> "none", score |-> [nan |-> FALSE, milli |-> 0],
                reconstruction |-> <<>>]
NoLayout == [pid |-> 0, stack_base |-> U64Zero, heap_base |-> U64Zero,
             mmap_base |-> U64Zero, vdso_offset |-> 0, layout_hash |-> 0,
             regeneration_count |-> 0]
NoMr == [pc |-> "idle", op |-> "none", pid |-> 0, lock |-> FALSE,
         calls |-> 0, found |-> FALSE, before |-> 0, ret |-> NoLayout]
NoSnap == [clock |-> 0, takes |-> 0, restores |-> 0, op |-> "none",
           id |-> 0, result |-> "none"]
NoRequests == [revoke_token |-> 0, regenerate_layout |-> 0,
               capture_snapshot |-> 0]
NoCoord == [state |-> "Observing", timer |-> 0, since |-> 0, run |-> 0,
            run_esc |-> 0, flags |-> 0, escalations |-> 0,
            requests |-> NoRequests]

\* MLAnomalyDetector::new: no call made yet.
InitDetect == da_in = NoDetectIn /\ da_out = NoDetectOut

\* A monitored process starts in Observing.
InitCoord == coord = NoCoord

\* MemoryRandomizer::new: an empty map behind an unlocked RwLock.
InitMemory == layouts = <<>> /\ mr = NoMr

\* SnapshotManager::new: the snapshot directory holds no snapshot.
InitSnapshot == snapshot_dir = <<>> /\ snap = NoSnap

NoTokenData == [pid |-> 0, timestamp |-> 0, nonce |-> 0,
                parent |-> <<>>, caps |-> <<>>]
NoToken == [pid |-> 0, parent_token |-> <<>>,
            signature |-> [signer |-> "none", data |-> NoTokenData],
            timestamp |-> 0, capabilities |-> <<>>, nonce |-> 0]
NoProof == [token_signature |-> NoToken.signature, revoked_at |-> 0,
            proof |-> [signer |-> "none", data |-> NoTokenData]]
\* clock: SystemTime::now() in seconds; op/token/result/proof: the latest
\* call, its argument and what it returned; revoked: the tokens revoke_token
\* has been called on (history only, the program keeps no such list)
NoCi == [clock |-> 0, calls |-> 0, op |-> "none", token |-> NoToken,
         result |-> "none", proof |-> NoProof, revoked |-> {}]

\* CryptoIdentifier::new: a key pair, no token issued.
InitCrypto == tokens = {} /\ ci = NoCi

Init ==
  /\ syscall_start = <<>>
  /\ syscall_count = <<>>
  /\ syscall_errors = <<>>
  /\ ktime = U64Zero
  /\ ticks = 0
  /\ exits = 0
  /\ events = <<>>
  /\ syscall_stats = <<>>
  /\ shard_lock = [s \in Shards |-> 0]
  /\ pc = [t \in Tasks |-> "poll"]
  /\ batch = [t \in Tasks |-> <<>>]
  /\ cur = [t \in Tasks |-> NoRecord]
  /\ local = [t \in Tasks |-> NoStat]
  /\ alerts = {}
  /\ shutdown = FALSE
  /\ processed = <<>>
  /\ last = NoLast
  /\ fed = 0
  /\ ef_in = NoExtractIn
  /\ ef_out = NoExtractOut
  /\ InitDetect
  /\ InitCoord
  /\ InitMemory
  /\ InitSnapshot
  /\ InitCrypto

Next ==
  \/ Tick
  \/ \E p \in PidTgids : syscall_entry(p)
  \/ \E p \in PidTgids, s \in SyscallIds, r \in RetVals : syscall_exit(p, s, r)
  \/ \E t \in Tasks : TaskPoll(t)
  \/ \E t \in Tasks : TaskNext(t)
  \/ \E t \in Tasks : TaskEntry(t)
  \/ \E t \in Tasks : TaskLoad(t)
  \/ \E t \in Tasks : TaskStore(t)
  \/ \E t \in Tasks : TaskDrop(t)
  \/ \E t \in Tasks : TaskSleep(t)
  \/ Shutdown

Spec == Init /\ [][Next]_vars

(***************************************************************************)
(* The aggregator alone: one consumer whose perf_map.read() may return any *)
(* record, the loop body taken as one step (it runs under the shard lock). *)
(* After FreePrefix arbitrary records the run repeats its last record.     *)
(***************************************************************************)
FeedDurations == {U64Zero, ToU64(2 * SubmitThresholdNs),
                  U64Sub(U64Zero, ToU64(5))}

FeedRecords ==
  {[pid |-> 1, syscall |-> 1, duration |-> d, retval |-> U32OfLong(r)] :
     d \in FeedDurations, r \in RetVals}

Record(rec) ==
  /\ fed < MaxCount
  /\ ~last.panicked
  /\ fed < FreePrefix \/ rec = last.rec
  /\ LET stats == OrInsert(syscall_stats, rec.syscall)
         old == stats[rec.syscall]
     IN \E o \in UpdateOutcomes(old, rec.duration) :
          LET a == IF o.panicked THEN {} ELSE AlertOf(rec.syscall, o.stat)
          IN /\ syscall_stats' = [stats EXCEPT ![rec.syscall] = o.stat]
             /\ alerts' = alerts \cup a
             /\ last' = [rec |-> rec, old |-> old, new |-> o.stat,
                         panicked |-> o.panicked, alerted |-> a # {}]
  /\ processed' = Account(processed, rec)
  /\ fed' = fed + 1
  /\ UNCHANGED <<kernelVars, events, taskVars, shutdown, extractVars, peripheralVars>>

NextFeed == \E rec \in FeedRecords : Record(rec)

SpecFeed == Init /\ [][NextFeed]_vars

(***************************************************************************)
(* MLAnomalyDetector::extract_features.  An f32 result is either NaN or a  *)
(* number held in thousandths.                                             *)
(***************************************************************************)
Timings == {100, 300}
SequenceIds == {1, 2, 3, 4}     \* syscall ids of a syscall_sequence
PrivilegeLevels == {0, 1}

NaN == [nan |-> TRUE, milli |-> 0]
Num(m) == [nan |-> FALSE, milli |-> m]

\* a as f32 / b as f32 for unsigned a, b: 0.0 / 0.0 is NaN.
F32Div(a, b) ==
  IF b = 0 THEN NaN        \* a = 0 whenever b = 0 in the calls below
  ELSE Num((a * 1000) \div b)

RECURSIVE SeqSum(_)
SeqSum(q) == IF q = <<>> THEN 0 ELSE Head(q) + SeqSum(Tail(q))

RECURSIVE SeqSumSq(_)
SeqSumSq(q) == IF q = <<>> THEN 0 ELSE Head(q) * Head(q) + SeqSumSq(Tail(q))

Occurrences(q, x) == Cardinality({i \in 1..Len(q) : q[i] = x})

\* 1000 * p * log2(1/p) for p = c / total, rounded, for total <= 5.
PLog2Milli(c, total) ==
  IF c = total THEN 0
  ELSE IF 2 * c = total THEN 500
  ELSE IF 4 * c = total THEN 500
  ELSE IF 3 * c = total THEN 528
  ELSE IF 3 * c = 2 * total THEN 390
  ELSE IF 4 * c = 3 * total THEN 311
  ELSE IF 5 * c = total THEN 464
  ELSE IF 5 * c = 2 * total THEN 529
  ELSE IF 5 * c = 3 * total THEN 442
  ELSE 258                                     \* c = 4, total = 5

RECURSIVE SumOver(_, _, _)
SumOver(keys, q, total) ==
  IF keys = {} THEN 0
  ELSE LET k == CHOOSE x \in keys : TRUE
       IN PLog2Milli(Occurrences(q, k), total) + SumOver(keys \ {k}, q, total)

\* calculate_entropy with the natural logarithm in place of log2.
calculate_entropy_ln(sequence) ==
  Num((SumOver({sequence[i] : i \in 1..Len(sequence)}, sequence,
               Len(sequence)) * 693) \div 1000)

\* An empty sequence has no counts: the sum is 0.0.
calculate_entropy(sequence) ==
  Num(SumOver({sequence[i] : i \in 1..Len(sequence)}, sequence,
              Len(sequence)))

\* Population variance: the mean of the squared deviations from the mean.
calculate_variance(timing) ==
  LET n == Len(timing)
  IN IF n = 0 THEN NaN
     ELSE Num(((n * SeqSumSq(timing) - SeqSum(timing) * SeqSum(timing)) * 1000)
              \div (n * n))

\* The mean of the bytes of the HMAC tag over 255: a fixed function of the
\* signature with values in [0, 1]; the digest itself is not computed.
calculate_signature_similarity(signature) ==
  Num(500 + ((SeqSum(signature) * 7 + Len(signature) * 13) % 100))

\* extract_features with the entropy pushed after the mean timing.
extract_features_swapped(syscall_sequence, timing, process_metadata) ==
  [returned |-> TRUE,
   error |-> "none",
   features |->
     <<Num(Len(syscall_sequence) * 1000),
       F32Div(SeqSum(timing), Len(timing)),
       calculate_entropy(syscall_sequence),
       calculate_variance(timing),
       Num(process_metadata.privilege_level * 1000),
       Num(process_metadata.children_count * 1000),
       Num(process_metadata.resource_usage),
       calculate_signature_similarity(process_metadata.signature)>>]

extract_features(syscall_sequence, timing, process_metadata) ==
  [returned |-> TRUE,
   error |-> "none",
   features |->
     <<Num(Len(syscall_sequence) * 1000),
       calculate_entropy(syscall_sequence),
       F32Div(SeqSum(timing), Len(timing)),
       calculate_variance(timing),
       Num(process_metadata.privilege_level * 1000),
       Num(process_metadata.children_count * 1000),
       Num(process_metadata.resource_usage),
       calculate_signature_similarity(process_metadata.signature)>>]

SeqsUpTo(S, n) == UNION {[1..k -> S] : k \in 0..n}

ExtractInputs ==
  {[syscall_sequence |-> q, timing |-> t,
    process_metadata |-> [privilege_level |-> p, children_count |-> 0,
                          resource_usage |-> 100, signature |-> <<>>],
    pending |-> TRUE] :
     q \in SeqsUpTo(SequenceIds, MaxSeqLen),
     t \in SeqsUpTo(Timings, MaxSeqLen),
     p \in PrivilegeLevels}

InitExtract ==
  /\ syscall_start = <<>>
  /\ syscall_count = <<>>
  /\ syscall_errors = <<>>
  /\ ktime = U64Zero
  /\ ticks = 0
  /\ exits = 0
  /\ events = <<>>
  /\ syscall_stats = <<>>
  /\ shard_lock = [s \in Shards |-> 0]
  /\ pc = [t \in Tasks |-> "poll"]
  /\ batch = [t \in Tasks |-> <<>>]
  /\ cur = [t \in Tasks |-> NoRecord]
  /\ local = [t \in Tasks |-> NoStat]
  /\ alerts = {}
  /\ shutdown = FALSE
  /\ processed = <<>>
  /\ last = NoLast
  /\ fed = 0
  /\ ef_in \in ExtractInputs
  /\ ef_out = NoExtractOut
  /\ InitDetect
  /\ InitCoord
  /\ InitMemory
  /\ InitSnapshot
  /\ InitCrypto

ExtractFeatures ==
  /\ ef_in.pending
  /\ ef_out' = extract_features(ef_in.syscall_sequence, ef_in.timing,
                                ef_in.process_metadata)
  /\ ef_in' = [ef_in EXCEPT !.pending = FALSE]
  /\ UNCHANGED <<monitorVars, peripheralVars>>

NextExtract == ExtractFeatures

SpecExtract == InitExtract /\ [][NextExtract]_vars

(***************************************************************************)
(* MLAnomalyDetector::detect_anomaly.  The graph of the loaded model is    *)
(* outside the program: it has an input width, it may or may not hold the  *)
(* three operations the call looks up, and its outputs are arbitrary.      *)
(***************************************************************************)
FeatureLens == {0, 4, 8, 9}
ModelWidths == {4, 8}
FeatureValues == {0, 1000}
DetectScores == {Num(0), Num(1000)}

DetectInputs ==
  {[features |-> [i \in 1..n |-> Num(v)], width |-> w, has_ops |-> h,
    pending |-> TRUE] :
     n \in FeatureLens, v \in FeatureValues, w \in ModelWidths, h \in BOOLEAN}

\* The outcomes of one call.  The tensor is built with shape
\* [1, features.len()] whatever the model expects; the only place the two
\* meet is session.run, whose failure comes back through `?` as tf::Status.
detect_anomaly(features, width, has_ops) ==
  IF ~has_ops
  THEN {[returned |-> TRUE, ran |-> FALSE, panicked |-> FALSE,
         error |-> "Status", score |-> Num(0), reconstruction |-> <<>>]}
  ELSE IF Len(features) # width
  THEN {[returned |-> TRUE, ran |-> TRUE, panicked |-> FALSE,
         error |-> "Status", score |-> Num(0), reconstruction |-> <<>>]}
  ELSE {[returned |-> TRUE, ran |-> TRUE, panicked |-> FALSE,
         error |-> "none", score |-> s, reconstruction |-> features] :
          s \in DetectScores}

DetectCall(in) ==
  /\ ~da_in.pending
  /\ da_in' = in
  /\ UNCHANGED <<monitorVars, cryptoVars, extractVars, da_out, coord, memoryVars,
                 snapshotVars>>

DetectReturn ==
  /\ da_in.pending
  /\ da_out' \in detect_anomaly(da_in.features, da_in.width, da_in.has_ops)
  /\ da_in' = [da_in EXCEPT !.pending = FALSE]
  /\ UNCHANGED <<monitorVars, cryptoVars, extractVars, coord, memoryVars, snapshotVars>>

NextDetect ==
  \/ \E in \in DetectInputs : DetectCall(in)
  \/ DetectReturn

SpecDetect == Init /\ [][NextDetect]_vars

(***************************************************************************)
(* The Detection Coordinator's state machine for one monitored process     *)
(* (spec section 4.5).  Time is counted in ticks; timer is the time spent  *)
(* in the current phase, since the time from the first flag of the current *)
(* run of flags, a run being the flags that start from Observing and fall  *)
(* within the escalation window of its first flag.                         *)
(***************************************************************************)
EscalationWindow == 2     \* ticks in which a second flag escalates
Cooldown == 3             \* flag-free ticks before the return to Observing

\* Entering Escalated: one request to each collaborator, not awaited.
Escalate(c) ==
  [c EXCEPT !.state = "Escalated",
            !.timer = 0,
            !.escalations = @ + 1,
            !.run_esc = @ + 1,
            !.requests = [r \in DOMAIN @ |-> @[r] + 1]]

\* OnFlag with a flag received in Escalated entering Escalated again.
OnFlag_Reenter(c, elevated) ==
  LET inRun == c.run > 0 /\ c.since <= EscalationWindow
      f == [c EXCEPT !.flags = @ + 1,
                     !.run = IF inRun THEN @ + 1 ELSE 0,
                     !.run_esc = IF inRun THEN @ ELSE 0]
  IN IF c.state = "Observing"
     THEN LET g == [f EXCEPT !.run = 1, !.since = 0, !.run_esc = 0,
                             !.timer = 0]
          IN IF elevated THEN Escalate(g)
             ELSE [g EXCEPT !.state = "Flagged"]
     ELSE IF c.state = "Flagged"
     THEN IF c.timer <= EscalationWindow THEN Escalate(f)
          ELSE [f EXCEPT !.timer = 0]
     ELSE IF c.state = "Escalated" THEN Escalate(f)
     ELSE [f EXCEPT !.timer = 0]

\* An Anomaly Scorer result above threshold_flag arrives.
OnFlag(c, elevated) ==
  LET inRun == c.run > 0 /\ c.since <= EscalationWindow
      f == [c EXCEPT !.flags = @ + 1,
                     !.run = IF inRun THEN @ + 1 ELSE 0,
                     !.run_esc = IF inRun THEN @ ELSE 0]
  IN IF c.state = "Observing"
     THEN LET g == [f EXCEPT !.run = 1, !.since = 0, !.run_esc = 0,
                             !.timer = 0]
          IN IF elevated THEN Escalate(g)
             ELSE [g EXCEPT !.state = "Flagged"]
     ELSE IF c.state = "Flagged"
     THEN IF c.timer <= EscalationWindow THEN Escalate(f)
          ELSE [f EXCEPT !.timer = 0]
     ELSE [f EXCEPT !.timer = 0]     \* Escalated, Mitigated: cooldown restarts

CoordFlag(elevated) ==
  /\ coord.flags < MaxFlags
  /\ coord' = OnFlag(coord, elevated)
  /\ UNCHANGED <<monitorVars, cryptoVars, extractVars, detectVars, memoryVars,
                 snapshotVars>>

\* One tick of time passes.
CoordTick ==
  /\ coord.timer < Cooldown \/ coord.since <= EscalationWindow
  /\ coord' = [coord EXCEPT
                 !.timer = IF @ < Cooldown THEN @ + 1 ELSE @,
                 !.since = IF @ <= EscalationWindow THEN @ + 1 ELSE @]
  /\ UNCHANGED <<monitorVars, cryptoVars, extractVars, detectVars, memoryVars,
                 snapshotVars>>

\* A collaborator acknowledges the mitigation, or the operator overrides.
CoordAck ==
  /\ coord.state = "Escalated"
  /\ coord' = [coord EXCEPT !.state = "Mitigated", !.timer = 0]
  /\ UNCHANGED <<monitorVars, cryptoVars, extractVars, detectVars, memoryVars,
                 snapshotVars>>

\* The cooldown has passed with no further flag.
CoordCooldown ==
  /\ coord.state \in {"Escalated", "Mitigated"}
  /\ coord.timer >= Cooldown
  /\ coord' = [coord EXCEPT !.state = "Observing", !.timer = 0]
  /\ UNCHANGED <<monitorVars, cryptoVars, extractVars, detectVars, memoryVars,
                 snapshotVars>>

NextCoord ==
  \/ \E elevated \in BOOLEAN : CoordFlag(elevated)
  \/ CoordTick
  \/ CoordAck
  \/ CoordCooldown

SpecCoord == Init /\ [][NextCoord]_vars

(***************************************************************************)
(* MemoryRandomizer of src/memory_randomizer.rs.  Both methods take        *)
(* &mut self, so one thread is inside the randomizer at a time; the        *)
(* RwLock around the map is std::sync::RwLock, which is not reentrant.     *)
(* Addresses are u64 values in limbs; the generator's draws come from      *)
(* small sets.                                                             *)
(***************************************************************************)
Pids == {1, 2}

StackMin == <<0, 0, 28672, 0>>          \* 0x7000_0000
StackMax == <<0, 0, 32767, 65535>>      \* 0x7FFF_FFFF
HeapMin == <<0, 0, 4096, 0>>            \* 0x1000_0000
HeapMax == <<0, 0, 8191, 65535>>        \* 0x1FFF_FFFF
MmapMin == <<0, 0, 8192, 0>>            \* 0x2000_0000
MmapMax == <<0, 0, 12287, 65535>>       \* 0x2FFF_FFFF
PageSize == 4096                        \* !0xFFF clears the low 12 bits

\* self.rng.gen_range(min..max): values of the half-open range.
GenRange(min, max) ==
  {U64Add(min, ToU64(4660)).val, U64Sub(max, ToU64(1))}

\* self.rng.gen_range(0x1000..0xFFFF)
VdsoOffsets == {4096, 65534}

\* self.rng.gen::<u64>()
RandomWords == {<<43981, 4660, 0, 1>>, <<65535, 0, 4096, 0>>}

\* base & !0xFFF
AlignPage(base) == [base EXCEPT ![4] = @ - (@ % PageSize)]

\* generate_random_address(min, max): the values it can return.
generate_random_address(min, max) ==
  {AlignPage(base) : base \in GenRange(min, max)}

RECURSIVE BitXor(_, _)
BitXor(a, b) ==
  IF a = 0 THEN b
  ELSE IF b = 0 THEN a
  ELSE ((a + b) % 2) + 2 * BitXor(a \div 2, b \div 2)

\* x ^ y
U64Xor(x, y) ==
  <<BitXor(x[1], y[1]), BitXor(x[2], y[2]), BitXor(x[3], y[3]),
    BitXor(x[4], y[4])>>

\* w & 0x0000_FFFF_FFFF
Mask32(w) == <<0, 0, w[3], w[4]>>

\* generate_layout_hash: SHA-256 over a fresh seed, the pid and the time;
\* the digest is not computed, each call gives a value not given before.
generate_layout_hash(pid, nonce) == nonce

\* The layouts randomize_for_pid can build.
FreshLayouts(pid, nonce) ==
  {[pid |-> pid, stack_base |-> s, heap_base |-> h, mmap_base |-> m,
    vdso_offset |-> v, layout_hash |-> generate_layout_hash(pid, nonce),
    regeneration_count |-> 0] :
     s \in generate_random_address(StackMin, StackMax),
     h \in generate_random_address(HeapMin, HeapMax),
     m \in generate_random_address(MmapMin, MmapMax),
     v \in VdsoOffsets}

\* The layouts the Some branch of regenerate_layout can leave.
RegeneratedLayouts(layout, nonce) ==
  {[layout EXCEPT
      !.regeneration_count = @ + 1,
      !.stack_base = U64Xor(@, Mask32(r1)),
      !.heap_base = U64Xor(@, Mask32(r2)),
      !.mmap_base = U64Xor(@, Mask32(r3)),
      !.vdso_offset = v,
      !.layout_hash = generate_layout_hash(layout.pid, nonce)] :
     r1 \in RandomWords, r2 \in RandomWords, r3 \in RandomWords,
     v \in VdsoOffsets}

\* layouts.insert(pid, layout.clone())
Insert(map, pid, layout) ==
  (pid :> layout) @@ [k \in DOMAIN map \ {pid} |-> map[k]]

CallRandomize(pid) ==
  /\ mr.pc = "idle"
  /\ mr.calls < MaxCalls
  /\ mr' = [mr EXCEPT !.pc = "rand_lock", !.op = "randomize", !.pid = pid,
                      !.calls = @ + 1, !.found = pid \in DOMAIN layouts,
                      !.before = 0, !.ret = NoLayout]
  /\ UNCHANGED <<monitorVars, cryptoVars, extractVars, detectVars, coord, layouts,
                 snapshotVars>>

CallRegenerate(pid) ==
  /\ mr.pc = "idle"
  /\ mr.calls < MaxCalls
  /\ mr' = [mr EXCEPT !.pc = "regen_lock", !.op = "regenerate", !.pid = pid,
                      !.calls = @ + 1, !.found = pid \in DOMAIN layouts,
                      !.before = IF pid \in DOMAIN layouts
                                 THEN layouts[pid].regeneration_count ELSE 0,
                      !.ret = NoLayout]
  /\ UNCHANGED <<monitorVars, cryptoVars, extractVars, detectVars, coord, layouts,
                 snapshotVars>>

\* let mut layouts = self.layouts.write().unwrap()  (regenerate_layout)
RegenLock ==
  /\ mr.pc = "regen_lock"
  /\ ~mr.lock
  /\ mr' = [mr EXCEPT !.pc = "regen_body", !.lock = TRUE]
  /\ UNCHANGED <<monitorVars, cryptoVars, extractVars, detectVars, coord, layouts,
                 snapshotVars>>

\* if let Some(layout) = layouts.get_mut(&pid) { ... } else
\* { self.randomize_for_pid(pid) }: the guard is still alive in the else
\* branch.
RegenBody ==
  /\ mr.pc = "regen_body"
  /\ IF mr.pid \in DOMAIN layouts
     THEN \E l \in RegeneratedLayouts(layouts[mr.pid], mr.calls) :
            /\ layouts' = [layouts EXCEPT ![mr.pid] = l]
            /\ mr' = [mr EXCEPT !.pc = "idle", !.lock = FALSE, !.ret = l]
     ELSE /\ mr' = [mr EXCEPT !.pc = "rand_lock"]
          /\ UNCHANGED layouts
  /\ UNCHANGED <<monitorVars, cryptoVars, extractVars, detectVars, coord, snapshotVars>>

\* let mut layouts = self.layouts.write().unwrap()  (randomize_for_pid).
\* write() on a lock this thread already holds blocks for ever or panics;
\* the panic unwinds through regenerate_layout, which drops its guard.
RandLock ==
  /\ mr.pc = "rand_lock"
  /\ IF mr.lock
     THEN \/ mr' = [mr EXCEPT !.pc = "deadlocked"]
          \/ mr' = [mr EXCEPT !.pc = "panicked", !.lock = FALSE]
     ELSE mr' = [mr EXCEPT !.pc = "rand_body", !.lock = TRUE]
  /\ UNCHANGED <<monitorVars, cryptoVars, extractVars, detectVars, coord, layouts,
                 snapshotVars>>

RandBody ==
  /\ mr.pc = "rand_body"
  /\ \E l \in FreshLayouts(mr.pid, mr.calls) :
       /\ layouts' = Insert(layouts, mr.pid, l)
       /\ mr' = [mr EXCEPT !.pc = "idle", !.lock = FALSE, !.ret = l]
  /\ UNCHANGED <<monitorVars, cryptoVars, extractVars, detectVars, coord, snapshotVars>>

NextMem ==
  \/ \E pid \in Pids : CallRandomize(pid)
  \/ \E pid \in Pids : CallRegenerate(pid)
  \/ RegenLock
  \/ RegenBody
  \/ RandLock
  \/ RandBody

SpecMem == Init /\ [][NextMem]_vars

(***************************************************************************)
(* SnapshotManager of src/recovery_snapshot.rs.  A snapshot id is the      *)
(* nanosecond timestamp of the call; a file of the snapshot directory is   *)
(* its modification time and its bytes.  bincode is the sequence of the    *)
(* fields in declaration order, SHA-256 an injective tag on the bytes, and *)
(* the empty String the empty sequence.                                    *)
(***************************************************************************)
max_snapshots == 10
MtimeGrain == 16          \* nanosecond ticks per tick of a file's mtime
ClockSteps == {0, 1}      \* time passed since the previous call
KernelStates == {0, 1}    \* what the capture_* calls read from the kernel

\* bincode::serialize(&snapshot)
Serialize(snapshot) ==
  <<snapshot.snapshot_id, snapshot.timestamp, snapshot.state,
    snapshot.checksum>>

\* bincode::deserialize(&buffer)
Deserialize(bytes) ==
  [snapshot_id |-> bytes[1], timestamp |-> bytes[2], state |-> bytes[3],
   checksum |-> bytes[4]]

\* hex::encode(SHA256(data))
calculate_checksum(data) == <<"sha256", data>>

\* The snapshot take_snapshot hands to save_snapshot: the checksum is taken
\* over the snapshot with an empty checksum field, then stored in it.
TakenSnapshot(timestamp, state) ==
  LET snapshot == [snapshot_id |-> timestamp, timestamp |-> timestamp,
                   state |-> state, checksum |-> <<>>]
  IN [snapshot EXCEPT !.checksum = calculate_checksum(Serialize(snapshot))]

\* File::create, write, finish: the file of that id is replaced.
save_snapshot(dir, snapshot, now) ==
  (snapshot.snapshot_id :>
     [mtime |-> now \div MtimeGrain, bytes |-> Serialize(snapshot)])
  @@ [k \in DOMAIN dir \ {snapshot.snapshot_id} |-> dir[k]]

\* File::open and decode, or the io error of a missing file.
load_snapshot(dir, snapshot_id) ==
  IF snapshot_id \in DOMAIN dir
  THEN [ok |-> TRUE, snapshot |-> Deserialize(dir[snapshot_id].bytes)]
  ELSE [ok |-> FALSE,
        snapshot |-> [snapshot_id |-> snapshot_id, timestamp |-> 0,
                      state |-> 0, checksum |-> <<>>]]

\* The directories cleanup_old_snapshots can leave: the entries are sorted
\* by mtime, entries of equal mtime keep the order read_dir gave them, and
\* the first len - max_snapshots are removed.
cleanup_old_snapshots(dir) ==
  IF Cardinality(DOMAIN dir) <= max_snapshots THEN {dir}
  ELSE {[k \in DOMAIN dir \ R |-> dir[k]] :
          R \in {X \in SUBSET DOMAIN dir :
                   /\ Cardinality(X) = Cardinality(DOMAIN dir) - max_snapshots
                   /\ \A r \in X : \A k \in DOMAIN dir \ X :
                        dir[r].mtime <= dir[k].mtime}}

\* The result of restore_snapshot: the checksum is recomputed over the
\* loaded snapshot as it is, its checksum field included.
restore_snapshot(dir, snapshot_id) ==
  LET l == load_snapshot(dir, snapshot_id)
  IN IF ~l.ok THEN "not_found"
     ELSE IF calculate_checksum(Serialize(l.snapshot)) # l.snapshot.checksum
     THEN "checksum_mismatch"
     ELSE "ok"

TakeSnapshot(dt, state) ==
  /\ snap.takes < MaxTakes
  /\ LET now == snap.clock + dt
         snapshot == TakenSnapshot(now, state)
     IN /\ snapshot_dir' \in
             cleanup_old_snapshots(save_snapshot(snapshot_dir, snapshot, now))
        /\ snap' = [snap EXCEPT !.clock = now, !.takes = @ + 1,
                                !.op = "take", !.id = now, !.result = "ok"]
  /\ UNCHANGED <<monitorVars, cryptoVars, extractVars, detectVars, coord, memoryVars>>

\* The ids take_snapshot can have returned so far.
SnapshotIds == 0..MaxTakes

RestoreSnapshot(snapshot_id) ==
  /\ snap.restores < MaxRestores
  /\ snapshot_id <= snap.clock
  /\ snap' = [snap EXCEPT !.op = "restore", !.id = snapshot_id,
                          !.restores = @ + 1,
                          !.result = restore_snapshot(snapshot_dir,
                                                      snapshot_id)]
  /\ UNCHANGED <<monitorVars, cryptoVars, extractVars, detectVars, coord, memoryVars,
                 snapshot_dir>>

NextSnap ==
  \/ \E dt \in ClockSteps, state \in KernelStates : TakeSnapshot(dt, state)
  \/ \E id \in SnapshotIds : RestoreSnapshot(id)

SpecSnap == Init /\ [][NextSnap]_vars

(***************************************************************************)
(* A SnapshotManager constructed on a directory that already holds the     *)
(* snapshots of an earlier run: new() creates the directory only if it is  *)
(* missing.  The earlier snapshots were taken at the instants 0, 1, ...    *)
(***************************************************************************)
PriorCounts == {9, 10}        \* snapshots found in the directory
ClockStarts == {10, 14}       \* the instant the manager is constructed

\* The directory as n earlier take_snapshot calls left it.
PriorDir(n) ==
  [id \in 0..(n - 1) |->
     [mtime |-> id \div MtimeGrain,
      bytes |-> Serialize(TakenSnapshot(id, 0))]]

InitEvict ==
  /\ syscall_start = <<>>
  /\ syscall_count = <<>>
  /\ syscall_errors = <<>>
  /\ ktime = U64Zero
  /\ ticks = 0
  /\ exits = 0
  /\ events = <<>>
  /\ syscall_stats = <<>>
  /\ shard_lock = [s \in Shards |-> 0]
  /\ pc = [t \in Tasks |-> "poll"]
  /\ batch = [t \in Tasks |-> <<>>]
  /\ cur = [t \in Tasks |-> NoRecord]
  /\ local = [t \in Tasks |-> NoStat]
  /\ alerts = {}
  /\ shutdown = FALSE
  /\ processed = <<>>
  /\ last = NoLast
  /\ fed = 0
  /\ ef_in = NoExtractIn
  /\ ef_out = NoExtractOut
  /\ InitDetect
  /\ InitCoord
  /\ InitMemory
  /\ \E n \in PriorCounts : snapshot_dir = PriorDir(n)
  /\ \E c \in ClockStarts : snap = [NoSnap EXCEPT !.clock = c]
  /\ InitCrypto

NextEvict == \E dt \in ClockSteps : TakeSnapshot(dt, 0)

SpecEvict == InitEvict /\ [][NextEvict]_vars

(***************************************************************************)
(* crypto_identifiers.rs: CryptoIdentifier.  Ed25519 is modelled            *)
(* symbolically: a signature is the pair of the signing key and the signed  *)
(* data, and it verifies exactly against that key and that data.  The byte  *)
(* string token_data is kept as the record of its fixed-width fields (pid   *)
(* 4 bytes, timestamp 8 bytes, nonce 16 bytes) and its two variable-length  *)
(* tails (parent signature, JSON of the capabilities).                      *)
(***************************************************************************)
TokenPids == {1}
Nonces == {0, 1}
\* no capability, or Capability::NetworkAccess and Capability::Syscall(1)
CapabilityLists ==
  {<<>>, <<[kind |-> "NetworkAccess", arg |-> 0],
           [kind |-> "Syscall", arg |-> 1]>>}
CryptoClockSteps == {0, 1}

\* the key pair generated by CryptoIdentifier::new
key_pair == "key_pair"

\* serde_json::to_vec of one Capability
to_vec(cap) ==
  IF cap.kind = "NetworkAccess" THEN "\"NetworkAccess\""
  ELSE "{\"Syscall\":1}"

\* key_pair.sign(data)
sign(data) == [signer |-> key_pair, data |-> data]

\* UnparsedPublicKey::verify(data, signature) with this identifier's own
\* public key: TRUE for Ok(()), FALSE for Err(Unspecified)
verify(data, signature) == signature = sign(data)

\* token_data as both generate_process_token and verify_token build it;
\* parent is the parent's signature as a sequence of length 0 or 1
token_data(pid, timestamp, nonce, parent, capabilities) ==
  [pid |-> pid, timestamp |-> timestamp, nonce |-> nonce, parent |-> parent,
   caps |-> [i \in 1..Len(capabilities) |-> to_vec(capabilities[i])]]

generate_process_token(pid, parent_token, capabilities, timestamp, nonce) ==
  LET parent == [i \in 1..Len(parent_token) |-> parent_token[i].signature]
  IN [pid |-> pid,
      parent_token |-> parent,
      signature |->
        sign(token_data(pid, timestamp, nonce, parent, capabilities)),
      timestamp |-> timestamp,
      capabilities |-> capabilities,
      nonce |-> nonce]

\* "Ok(true)" or "Err"; there is no path to Ok(false)
verify_token(token) ==
  IF verify(token_data(token.pid, token.timestamp, token.nonce,
                       token.parent_token, token.capabilities),
            token.signature)
  THEN "Ok(true)" ELSE "Err"

\* the RevocationProof returned; nothing of the identifier changes (&self)
revoke_token(token, revocation_time) ==
  [token_signature |-> token.signature,
   revoked_at |-> revocation_time,
   proof |-> sign([signature |-> token.signature,
                   revocation_time |-> revocation_time])]

GenerateToken(pid, capabilities, nonce, dt) ==
  /\ ci.calls < MaxCryptoCalls
  /\ \E parent_token \in {<<>>} \cup {<<t>> : t \in tokens} :
       LET now == ci.clock + dt
           token == generate_process_token(pid, parent_token, capabilities,
                                           now, nonce)
       IN /\ tokens' = tokens \cup {token}
          /\ ci' = [ci EXCEPT !.clock = now, !.calls = @ + 1,
                              !.op = "generate_process_token",
                              !.token = token, !.result = "Ok(token)"]
  /\ UNCHANGED <<monitorVars, extractVars, detectVars, coord, memoryVars,
                 snapshotVars>>

\* the caller passes an issued token, or one whose pid field was changed
\* after signing
VerifyToken(tamper) ==
  /\ ci.calls < MaxCryptoCalls
  /\ \E t \in tokens :
       LET token == IF tamper THEN [t EXCEPT !.pid = t.pid + 1] ELSE t
       IN ci' = [ci EXCEPT !.calls = @ + 1, !.op = "verify_token",
                           !.token = token, !.result = verify_token(token)]
  /\ UNCHANGED <<monitorVars, extractVars, detectVars, coord, memoryVars,
                 snapshotVars, tokens>>

RevokeToken(dt) ==
  /\ ci.calls < MaxCryptoCalls
  /\ \E t \in tokens :
       LET now == ci.clock + dt
       IN ci' = [ci EXCEPT !.clock = now, !.calls = @ + 1,
                           !.op = "revoke_token", !.token = t,
                           !.result = "proof",
                           !.proof = revoke_token(t, now),
                           !.revoked = @ \cup {t}]
  /\ UNCHANGED <<monitorVars, extractVars, detectVars, coord, memoryVars,
                 snapshotVars, tokens>>

NextCrypto ==
  \/ \E pid \in TokenPids, capabilities \in CapabilityLists,
        nonce \in Nonces, dt \in CryptoClockSteps :
       GenerateToken(pid, capabilities, nonce, dt)
  \/ \E tamper \in BOOLEAN : VerifyToken(tamper)
  \/ \E dt \in CryptoClockSteps : RevokeToken(dt)

SpecCrypto == Init /\ [][NextCrypto]_vars

(***************************************************************************)
(* Properties.                                                             *)
(***************************************************************************)
\* No consumer task is inside the loop body for a record of this syscall id.
InFlight(s) ==
  Cardinality({t \in Tasks : pc[t] \in {"entry", "load", "store"}
                             /\ cur[t].syscall = s})

\* No task holds the guard of this key's shard.
Unlocked(s) == shard_lock[ShardOf(s)] = 0

\* neg / n as an f32 in units of 2^-25 (long division, rounded down).
ErrorRateOf(neg, n) ==
  IF n = 0 THEN 0
  ELSE LET q == (neg * 2^12) \div n
           r == (neg * 2^12) % n
       IN q * 2^13 + ((r * 2^13) \div n)

\* A record step has completed.
Stepped == last.rec # NoRecord

C2_Counts ==
  \A s \in DOMAIN processed :
    InFlight(s) = 0 =>
      /\ s \in DOMAIN syscall_stats
      /\ syscall_stats[s].count = processed[s].n
      /\ syscall_stats[s].error_rate =
           ErrorRateOf(processed[s].neg, processed[s].n)

C2_Monotone ==
  \A s \in DOMAIN syscall_stats :
    /\ s \in DOMAIN syscall_stats'
    /\ syscall_stats'[s].count >= syscall_stats[s].count
    /\ syscall_stats'[s].error_rate * syscall_stats'[s].count
         >= syscall_stats[s].error_rate * syscall_stats[s].count

\* C2: once the records taken for a syscall id have been processed, its stat
\* counts exactly those records and its error data counts exactly those with
\* a negative return code; counters never decrease and entries are never
\* removed.
C2_CountsEveryRecord == [](C2_Counts) /\ [][C2_Monotone]_vars

\* The score the heuristic gives a stat whose error ratio is neg / count.
ClaimedScore(neg, stat) ==
  calculate_suspicious_score(
    [stat EXCEPT !.error_rate = ErrorRateOf(neg, stat.count)])

\* C3: the stored score is the clamped sum of 0.4 for an error ratio above
\* 0.3 among the recorded calls, 0.3 for avg_duration_ns above 100 ms and
\* 0.3 for a count above 1000.
C3_ScoreIsSumOfContributions ==
  \A s \in DOMAIN syscall_stats :
    (InFlight(s) = 0 /\ Unlocked(s) /\ s \in DOMAIN processed) =>
      syscall_stats[s].suspicious_score =
        ClaimedScore(processed[s].neg, syscall_stats[s])

\* C4: between record steps the stored suspicious_score of every stat is the
\* heuristic applied to the stat's current count, error data and
\* avg_duration_ns.
C4_ScoreNeverStale ==
  \A s \in DOMAIN syscall_stats :
    Unlocked(s) =>
      syscall_stats[s].suspicious_score =
        calculate_suspicious_score(syscall_stats[s])

\* A record has been processed, its guard dropped, and the score it left is
\* not the initial one.
C4_Witness ==
  \E s \in DOMAIN syscall_stats :
    /\ Unlocked(s)
    /\ syscall_stats[s].count >= 1
    /\ syscall_stats[s].suspicious_score = F32_0_3

\* C5: a record step emits the alert <<syscall id, score>> exactly when the
\* score it recomputed exceeds 0.8, and a step that leaves a stat with error
\* ratio above 0.3, avg_duration_ns above 100 ms and count above 1000 emits
\* one.
C5_AlertIffScoreHigh ==
  Stepped =>
    LET s == last.rec.syscall
    IN /\ last.alerted <=> last.new.suspicious_score > F32_0_8
       /\ last.alerted => <<s, last.new.suspicious_score>> \in alerts
       /\ ( /\ 10 * processed[s].neg > 3 * processed[s].n
            /\ U64Gt(last.new.avg_duration_ns, ToU64(DurationThresholdNs))
            /\ last.new.count > CountThreshold ) => last.alerted

\* C6: fed only records with a non-negative return code and duration 0, a
\* stat has score 0 up to 1000 records and, from 1001 records on, a score of
\* at least 0.3 and below 0.7.
C6_CountContributionOnly ==
  \A s \in DOMAIN syscall_stats :
    (s \in DOMAIN processed /\ processed[s].neg = 0
       /\ processed[s].nonzero = 0) =>
      /\ syscall_stats[s].count = processed[s].n
      /\ processed[s].n <= 1000 => syscall_stats[s].suspicious_score = 0
      /\ processed[s].n >= 1001 =>
           /\ 10 * syscall_stats[s].suspicious_score >= 3 * F32_1_0
           /\ 10 * syscall_stats[s].suspicious_score < 7 * F32_1_0

\* 1001 zero-duration, error-free records have been fed for one id.
C6_Witness ==
  \E s \in DOMAIN syscall_stats :
    /\ s \in DOMAIN processed
    /\ processed[s].neg = 0
    /\ processed[s].nonzero = 0
    /\ processed[s].n = 1001
    /\ syscall_stats[s].suspicious_score = F32_0_3

\* C7: a record whose duration is negative (end before start) is counted
\* with duration 0: avg_duration_ns becomes floor(old_avg / 2) and no error
\* is raised.
C7_NegativeDurationClamped ==
  (Stepped /\ U64IsNegative(last.rec.duration)) =>
    /\ ~last.panicked
    /\ last.new.count = last.old.count + 1
    /\ last.new.avg_duration_ns = U64Half(last.old.avg_duration_ns)

\* C8: with several consumer tasks no increment is lost: the count of a
\* syscall id plus the records of that id still inside a loop body equals
\* the number of records taken off the buffer for it by all tasks.
C8_NoLostIncrement ==
  \A s \in DOMAIN processed :
    (IF s \in DOMAIN syscall_stats THEN syscall_stats[s].count ELSE 0)
      + InFlight(s) = processed[s].n

\* Two tasks took a record of the same syscall id: one has written its
\* update and still holds the guard, the other waits in entry().
C8_Witness ==
  \E s \in DOMAIN syscall_stats : \E t1, t2 \in Tasks :
    /\ t1 # t2
    /\ cur[t1].syscall = s /\ pc[t1] = "drop"
    /\ cur[t2].syscall = s /\ pc[t2] = "entry"
    /\ syscall_stats[s].count = 1
    /\ processed[s].n = 2

\* C9: the loop checks the shutdown signal on every iteration: once shutdown
\* is signalled a task that finishes its sleep does not poll again.
C9_ShutdownStopsPolling ==
  [][\A t \in Tasks : (shutdown /\ pc[t] = "sleep") => pc'[t] # "poll"]_vars

InvalidExtractInput ==
  \/ ef_in.syscall_sequence = <<>>
  \/ ef_in.timing = <<>>
  \/ Len(ef_in.timing) # Len(ef_in.syscall_sequence)

\* C10: extract_features on an empty syscall_sequence, an empty timing or
\* sequences of different lengths fails with InvalidInput and returns no
\* feature vector, so it never returns a vector containing NaN.
C10_InvalidInputRejected ==
  ef_out.returned =>
    /\ \A i \in 1..Len(ef_out.features) : ~ef_out.features[i].nan
    /\ InvalidExtractInput =>
         ef_out.error = "InvalidInput" /\ ef_out.features = <<>>

\* The latest detect_anomaly call has returned and its vector did not have
\* the model's input width.
DetectMismatch ==
  /\ da_out.returned
  /\ ~da_in.pending
  /\ Len(da_in.features) # da_in.width

\* C11: scoring a feature vector whose length differs from the model's input
\* width returns FeatureShapeMismatch before any forward pass is run, and
\* never panics.
C11_ShapeMismatchRejected ==
  DetectMismatch =>
    /\ da_out.error = "FeatureShapeMismatch"
    /\ ~da_out.ran
    /\ ~da_out.panicked

AllSame(q) == \A i, j \in 1..Len(q) : q[i] = q[j]

\* 1000 times the sum of the squared deviations of n * q[i] from s.
RECURSIVE SumSqDev(_, _, _)
SumSqDev(q, n, s) ==
  IF q = <<>> THEN 0
  ELSE (n * Head(q) - s) * (n * Head(q) - s) + SumSqDev(Tail(q), n, s)

\* C12: for every valid input extract_features returns exactly 8 values in
\* the order sequence length, sequence entropy, mean timing (sum / len),
\* population variance of timing, privilege_level, children_count,
\* resource_usage, signature similarity; n identical ids with n identical
\* timings t give (n, 0, t, 0) and the metadata in positions 5 to 7.
C12_FeatureOrder ==
  (ef_out.returned /\ ~InvalidExtractInput) =>
    LET f == ef_out.features
        q == ef_in.syscall_sequence
        t == ef_in.timing
        m == ef_in.process_metadata
        n == Len(t)
    IN /\ Len(f) = 8
       /\ \A i \in 1..8 : ~f[i].nan
       /\ f[1].milli = 1000 * Len(q)
       /\ AllSame(q) <=> f[2].milli = 0
       /\ f[3].milli * n <= 1000 * SeqSum(t)
       /\ 1000 * SeqSum(t) < (f[3].milli + 1) * n
       /\ f[4].milli =
            (1000 * SumSqDev(t, n, SeqSum(t))) \div (n * n * n)
       /\ f[5].milli = 1000 * m.privilege_level
       /\ f[6].milli = 1000 * m.children_count
       /\ f[7].milli = m.resource_usage
       /\ f[8].milli >= 0 /\ f[8].milli <= 1000
       /\ (AllSame(q) /\ AllSame(t)) =>
            /\ f[2].milli = 0
            /\ f[3].milli = 1000 * t[1]
            /\ f[4].milli = 0

\* extract_features has returned for four identical ids with four identical
\* timings of 100 and privilege_level 1.
C12_Witness ==
  /\ ef_out.returned
  /\ Len(ef_in.syscall_sequence) = 4
  /\ AllSame(ef_in.syscall_sequence)
  /\ ef_in.timing = <<100, 100, 100, 100>>
  /\ ef_in.process_metadata.privilege_level = 1
  /\ ef_out.features[1] = Num(4000)
  /\ ef_out.features[3] = Num(100000)
  /\ ef_out.features[5] = Num(1000)

\* Every id of the sequence occurs the same number of times.
Uniform(q) ==
  \A i, j \in 1..Len(q) : Occurrences(q, q[i]) = Occurrences(q, q[j])

DistinctIds(q) == Cardinality({q[i] : i \in 1..Len(q)})

\* C13: calculate_entropy returns 0 for every non-empty sequence whose
\* elements are all identical, and log2(N) for every sequence of N distinct
\* ids each occurring the same number of times, N a power of two.
C13_EntropyExact ==
  ef_out.returned =>
    LET q == ef_in.syscall_sequence
        e == ef_out.features[2]
    IN /\ (q # <<>> /\ AllSame(q)) => e = Num(0)
       /\ \A k \in 0..2 :
            (q # <<>> /\ Uniform(q) /\ DistinctIds(q) = 2^k) =>
              e = Num(1000 * k)

\* The entropy of four distinct ids, each occurring once, was returned as 2.
C13_Witness ==
  /\ ef_out.returned
  /\ Len(ef_in.syscall_sequence) = 4
  /\ DistinctIds(ef_in.syscall_sequence) = 4
  /\ ef_out.features[2] = Num(2000)

\* The flags of a run of at least two led to exactly one escalation, and
\* every escalation sent one request to each collaborator.
C14_Once ==
  /\ coord.run >= 2 => coord.run_esc = 1
  /\ \A r \in DOMAIN coord.requests :
       coord.requests[r] = coord.escalations

\* The second flag of a run enters Escalated; a flag received in Escalated
\* leaves the state, the escalations and the requests as they are.
C14_Step ==
  coord'.flags = coord.flags + 1 =>
    /\ (coord.state = "Flagged" /\ coord'.run = 2) =>
         /\ coord'.state = "Escalated"
         /\ coord'.escalations = coord.escalations + 1
    /\ coord.state = "Escalated" =>
         /\ coord'.state = "Escalated"
         /\ coord'.escalations = coord.escalations
         /\ coord'.requests = coord.requests

\* C14: from Observing, three flags within the escalation window drive the
\* process to Escalated and trigger the mitigation requests exactly once: a
\* further flag received while Escalated causes no second escalation and no
\* second set of requests.
C14_EscalatedExactlyOnce == [](C14_Once) /\ [][C14_Step]_vars

\* Three flags of one run have arrived, the third while Escalated.
C14_Witness ==
  /\ coord.run = 3
  /\ coord.flags = 3
  /\ coord.state = "Escalated"
  /\ coord.escalations = 1
  /\ coord.requests.capture_snapshot = 1

\* floor((x + y) / 2) of two u64 values, the sum taken in 65 bits.
ExactHalfSum(x, y) ==
  LET s == U64Add(x, y)
      h == U64Half(s.val)
  IN [h EXCEPT ![1] = @ + s.carry * (Base \div 2)]

\* C16: for every prior avg_duration_ns and every 64-bit duration a record
\* step sets avg_duration_ns to floor((old_avg + duration) / 2), the sum
\* computed without overflow or wrap-around, so the new value lies between
\* the smaller and the larger of old_avg and duration.
C16_AvgIsExactHalfSum ==
  Stepped =>
    LET a == last.old.avg_duration_ns
        d == last.rec.duration
        lo == IF U64Le(a, d) THEN a ELSE d
        hi == IF U64Le(a, d) THEN d ELSE a
    IN /\ ~last.panicked
       /\ last.new.avg_duration_ns = ExactHalfSum(a, d)
       /\ U64Le(lo, last.new.avg_duration_ns)
       /\ U64Le(last.new.avg_duration_ns, hi)

\* The entries of the ids other than s are the same before and after.
OthersKept(s) ==
  /\ DOMAIN syscall_stats' \ {s} = DOMAIN syscall_stats \ {s}
  /\ \A k \in DOMAIN syscall_stats \ {s} :
       syscall_stats'[k] = syscall_stats[k]

\* C17: processing a record for syscall id s changes only the stat entry of
\* s: the count, avg_duration_ns, error data and suspicious_score of every
\* other id, and the set of other ids present, are unchanged by that step;
\* a step that processes no record changes no entry.
C17_OnlyOwnEntryChanges ==
  [][/\ \A t \in Tasks : pc'[t] # pc[t] => OthersKept(cur[t].syscall)
     /\ (\A t \in Tasks : pc'[t] = pc[t]) =>
          syscall_stats' = syscall_stats]_vars

\* A record of one id has been processed while another id had an entry,
\* and both entries hold one record.
C17_Witness ==
  /\ Stepped
  /\ \E k \in DOMAIN syscall_stats :
       /\ k # last.rec.syscall
       /\ syscall_stats[k].count = 1
       /\ last.rec.syscall \in DOMAIN syscall_stats
       /\ last.old.count = 0
       /\ syscall_stats[last.rec.syscall].count = 1

\* C18: regenerate_layout(pid) always terminates and returns a layout for
\* pid: with no stored layout it falls back to randomize_for_pid and returns
\* a fresh stored layout with regeneration_count 0, without deadlocking on
\* the write lock it holds; with a stored layout it returns that layout with
\* regeneration_count increased by exactly 1.
C18_RegenerateReturns ==
  mr.op = "regenerate" =>
    /\ mr.pc \notin {"deadlocked", "panicked"}
    /\ mr.pc = "idle" =>
         /\ mr.ret.pid = mr.pid
         /\ mr.pid \in DOMAIN layouts
         /\ layouts[mr.pid] = mr.ret
         /\ mr.ret.regeneration_count =
              (IF mr.found THEN mr.before + 1 ELSE 0)

InRegion(a, min, max) == U64Le(min, a) /\ U64Le(a, max)

PageAligned(a) == a[4] % PageSize = 0

\* C19: after any sequence of randomize_for_pid and regenerate_layout calls
\* every stored layout has stack_base, heap_base and mmap_base aligned to a
\* 4 KB page and inside the region it was generated for.
C19_LayoutsAlignedInRegion ==
  \A pid \in DOMAIN layouts :
    /\ PageAligned(layouts[pid].stack_base)
    /\ PageAligned(layouts[pid].heap_base)
    /\ PageAligned(layouts[pid].mmap_base)
    /\ InRegion(layouts[pid].stack_base, StackMin, StackMax)
    /\ InRegion(layouts[pid].heap_base, HeapMin, HeapMax)
    /\ InRegion(layouts[pid].mmap_base, MmapMin, MmapMax)

\* C20: restore_snapshot(id) succeeds for every id returned by a successful
\* take_snapshot whose file has not been modified or evicted: the checksum
\* recomputed at restore equals the checksum stored at capture.
C20_RestoreOfTakenSucceeds ==
  (snap.op = "restore" /\ snap.id \in DOMAIN snapshot_dir) =>
    snap.result = "ok"

\* The files a step removed from the snapshot directory.
Evicted == DOMAIN snapshot_dir \ DOMAIN snapshot_dir'

\* C21: after every successful take_snapshot the snapshot directory holds at
\* most max_snapshots (10) files; the files removed are the oldest by
\* modification time, and the snapshot just taken is among those kept.
C21_EvictionKeepsNewest ==
  [][snap'.takes = snap.takes + 1 =>
       /\ Cardinality(DOMAIN snapshot_dir') <= max_snapshots
       /\ \A r \in Evicted : \A k \in DOMAIN snapshot_dir' :
            snapshot_dir[r].mtime <= snapshot_dir'[k].mtime
       /\ snap'.id \in DOMAIN snapshot_dir']_vars

\* C22: once revoke_token(t) has been called on the identifier, a later
\* verify_token(t) on it does not return Ok(true); a token issued by
\* generate_process_token on it and never revoked verifies as Ok(true).
C22_RevokedTokenRejected ==
  ci.op = "verify_token" =>
    IF ci.token \in ci.revoked
    THEN ci.result # "Ok(true)"
    ELSE ci.token \in tokens => ci.result = "Ok(true)"

====
